---- MODULE Spec2Model ----
(***************************************************************************)
(* A model of convert (src/main.go): file discovery (gatherFiles), the     *)
(* worker pool (startWorkers / convertWorker), one conversion (getInfo,    *)
(* convert, Copy), and watch mode (watch, isVid).                          *)
(*                                                                         *)
(* Strings are sequences of tokens: a token is either "." or a run of      *)
(* characters without a dot, so ".mp4" is <<".", "mp4">> and "a.avi" is    *)
(* <<"a", ".", "avi">>.  A path is the sequence of its elements (names).   *)
(***************************************************************************)
EXTENDS Integers, Sequences, FiniteSets, TLC

VARIABLES
    numWorkers,      \* flag -n
    deleteOriginal,  \* flag -d
    recursive,       \* flag -r
    outputDir,       \* flag -o, <<>> is ""
    inputs,          \* flag.Args()
    fs,              \* the regular files: path -> content
    dirs,            \* the directories (paths)
    proc,            \* the process: "running", "fatal", "panic", "exited"
    pcMain,          \* where the main goroutine is
    filesToConvert,  \* main's local
    closed,          \* close(fileChan) has run
    wg,              \* the WaitGroup's counter
    pc,              \* where each worker goroutine is
    cur,             \* the job (index into jobs) each worker holds, 0: none
    codec,           \* convert's locals <<audioCodec, videoCodec>>, per worker
    err,             \* convert's err, per worker: "" is nil
    jobs,            \* history: one record per value sent on fileChan
    gst,             \* gatherFiles' locals, when run step by step
    events,          \* watch mode: the events not yet read from watcher.Events
    evpc,            \* where watch's event goroutine is
    evFiles,         \* the event goroutine's sends still to do for the event
    evLog,           \* history: one record per event the goroutine has read
    arrivals         \* watch mode: how many things the outside has created

flagVars == <<numWorkers, deleteOriginal, recursive, outputDir, inputs>>
fsVars == <<fs, dirs>>
poolVars == <<closed, wg, pc, cur, codec, err, jobs>>
watchVars == <<events, evpc, evFiles, evLog, arrivals>>
vars == <<flagVars, fsVars, proc, pcMain, filesToConvert, poolVars, gst, watchVars>>

(***************************************************************************)
(* Bounds of the model.                                                    *)
(***************************************************************************)
MaxWorkers == 2     \* -n ranges over 0..MaxWorkers
MaxInputs == 2      \* at most this many positional arguments
MaxStreams == 3     \* at most this many streams in one probe output
MaxDepth == 2       \* gatherFiles' trees: nesting of directories below the root
MaxArrivals == 1    \* watch mode: things created under the watched root

(***************************************************************************)
(* Strings and paths (path/filepath, strings).                             *)
(***************************************************************************)
Dot == "."
MP4 == <<Dot, "mp4">>
AVI == <<Dot, "avi">>
MKV == <<Dot, "mkv">>
TXT == <<Dot, "txt">>

\* The tokens of the model in byte order of the strings they stand for.
TokenOrder == <<Dot, "a", "avi", "b", "c", "d", "mkv", "mp4", "o", "sub", "txt", "w", "x">>

TokenRank(t) == CHOOSE i \in 1..Len(TokenOrder) : TokenOrder[i] = t

RECURSIVE NameLess(_, _)
\* a < b as strings (the order ioutil.ReadDir sorts by)
NameLess(a, b) ==
    IF b = <<>> THEN FALSE
    ELSE IF a = <<>> THEN TRUE
    ELSE IF a[1] = b[1] THEN NameLess(Tail(a), Tail(b))
    ELSE TokenRank(a[1]) < TokenRank(b[1])

RECURSIVE SortNames(_)
SortNames(S) ==
    IF S = {} THEN <<>>
    ELSE LET m == CHOOSE x \in S : \A y \in S : x = y \/ NameLess(x, y)
         IN  <<m>> \o SortNames(S \ {m})

\* filepath.Base of a path with at least one element
Base(path) == path[Len(path)]

\* filepath.Dir; <<>> stands for "."
Dir(path) == SubSeq(path, 1, Len(path) - 1)

\* filepath.Join(dir, name) / path.Join(dir, name)
Join(dir, name) == dir \o <<name>>

\* filepath.Ext of one name: the suffix beginning at the final dot, "" if none
ExtOfName(name) ==
    LET dots == {i \in 1..Len(name) : name[i] = Dot}
    IN  IF dots = {} THEN <<>>
        ELSE LET last == CHOOSE i \in dots : \A j \in dots : j <= i
             IN  SubSeq(name, last, Len(name))

Ext(path) == ExtOfName(Base(path))

HasSuffix(s, suffix) ==
    /\ Len(suffix) <= Len(s)
    /\ SubSeq(s, Len(s) - Len(suffix) + 1, Len(s)) = suffix

TrimSuffix(s, suffix) ==
    IF HasSuffix(s, suffix) THEN SubSeq(s, 1, Len(s) - Len(suffix)) ELSE s

HasPrefix(s, prefix) ==
    /\ Len(prefix) <= Len(s)
    /\ SubSeq(s, 1, Len(prefix)) = prefix

stringIn(val, choices) == \E i \in 1..Len(choices) : val = choices[i]

\* variant of isVid without the test for a leading "."
isVidHiddenToo(path) == stringIn(ExtOfName(Base(path)), <<MP4, AVI, MKV>>)

isVid(path) ==
    LET base == Base(path)
        ext == ExtOfName(base)
    IN  ~HasPrefix(base, <<Dot>>) /\ stringIn(ext, <<MP4, AVI, MKV>>)

(***************************************************************************)
(* The filesystem: os.Stat, ioutil.ReadDir.                                *)
(***************************************************************************)
Stat(F, D, path) ==
    IF path \in D THEN "dir"
    ELSE IF path \in DOMAIN F THEN "file"
    ELSE "missing"

\* ioutil.ReadDir: the names in the directory, sorted by name
ReadDir(F, D, dir) ==
    SortNames({Base(p) : p \in {q \in (DOMAIN F) \cup D : Len(q) > 0 /\ Dir(q) = dir}})

(***************************************************************************)
(* gatherFiles: one iteration of its loop on its locals, and the loop.     *)
(***************************************************************************)
GatherStart(root) ==
    [toExplore |-> <<root>>, files |-> <<>>, depth1 |-> TRUE, fatal |-> FALSE]

RECURSIVE JoinAll(_, _)
JoinAll(dir, names) ==
    IF names = <<>> THEN <<>>
    ELSE <<Join(dir, Head(names))>> \o JoinAll(dir, Tail(names))

\* variant of GatherIter: "else" in place of "else if !info.IsDir()"
GatherIterYieldDirs(st, rec, F, D) ==
    LET n == Len(st.toExplore)
        current == st.toExplore[n]
        rest == SubSeq(st.toExplore, 1, n - 1)
        kind == Stat(F, D, current)
    IN  IF kind = "missing" THEN [st EXCEPT !.fatal = TRUE, !.toExplore = rest]
        ELSE IF kind = "dir" /\ (rec \/ st.depth1)
        THEN [st EXCEPT !.toExplore = rest \o JoinAll(current, ReadDir(F, D, current)),
                        !.depth1 = FALSE]
        ELSE [st EXCEPT !.toExplore = rest, !.files = Append(st.files, current)]

\* variant of GatherIter: "depth1" in place of "recursive || depth1"
GatherIterNoDescend(st, rec, F, D) ==
    LET n == Len(st.toExplore)
        current == st.toExplore[n]
        rest == SubSeq(st.toExplore, 1, n - 1)
        kind == Stat(F, D, current)
    IN  IF kind = "missing" THEN [st EXCEPT !.fatal = TRUE, !.toExplore = rest]
        ELSE IF kind = "dir" /\ st.depth1
        THEN [st EXCEPT !.toExplore = rest \o JoinAll(current, ReadDir(F, D, current)),
                        !.depth1 = FALSE]
        ELSE IF kind # "dir"
        THEN [st EXCEPT !.toExplore = rest, !.files = Append(st.files, current)]
        ELSE [st EXCEPT !.toExplore = rest]

GatherIter(st, rec, F, D) ==
    LET n == Len(st.toExplore)
        current == st.toExplore[n]
        rest == SubSeq(st.toExplore, 1, n - 1)
        kind == Stat(F, D, current)
    IN  IF kind = "missing" THEN [st EXCEPT !.fatal = TRUE, !.toExplore = rest]
        ELSE IF kind = "dir" /\ (rec \/ st.depth1)
        THEN [st EXCEPT !.toExplore = rest \o JoinAll(current, ReadDir(F, D, current)),
                        !.depth1 = FALSE]
        ELSE IF kind # "dir"
        THEN [st EXCEPT !.toExplore = rest, !.files = Append(st.files, current)]
        ELSE [st EXCEPT !.toExplore = rest]

GatherDone(st) == st.fatal \/ st.toExplore = <<>>

RECURSIVE GatherLoop(_, _, _, _)
GatherLoop(st, rec, F, D) ==
    IF GatherDone(st) THEN st ELSE GatherLoop(GatherIter(st, rec, F, D), rec, F, D)

\* gatherFiles(root, recursive): .files is the result, .fatal a log.Fatalf
gatherFiles(root, rec, F, D) == GatherLoop(GatherStart(root), rec, F, D)


(***************************************************************************)
(* File contents, as far as ffprobe and ffmpeg tell them apart.            *)
(***************************************************************************)
StreamInfo(type, name) == [CodecType |-> type, CodecName |-> name]
Media(streams) == [kind |-> "media", streams |-> streams]
Junk == [kind |-> "junk", streams |-> <<>>]        \* not a media file
Partial == [kind |-> "partial", streams |-> <<>>]  \* what a failed ffmpeg leaves
Encoded == Media(<<StreamInfo("video", "h264"), StreamInfo("audio", "aac")>>)

\* exec.Command("ffprobe", ...).Output() and json.Unmarshal in getInfo:
\* ok = FALSE is the log.Fatalf
getInfo(F, path) ==
    IF path \in DOMAIN F /\ F[path].kind = "media"
    THEN [ok |-> TRUE, Streams |-> F[path].streams]
    ELSE [ok |-> FALSE, Streams |-> <<>>]

RECURSIVE CodecLoopFirst(_, _, _)
\* variant of CodecLoop: a codec name once set is kept
CodecLoopFirst(streams, audioCodec, videoCodec) ==
    IF streams = <<>> THEN <<audioCodec, videoCodec>>
    ELSE LET stream == Head(streams)
         IN  CodecLoopFirst(Tail(streams),
                 IF stream.CodecType = "audio" /\ audioCodec = ""
                 THEN stream.CodecName ELSE audioCodec,
                 IF stream.CodecType = "video" /\ videoCodec = ""
                 THEN stream.CodecName ELSE videoCodec)

RECURSIVE CodecLoop(_, _, _)
\* convert's loop over info.Streams
CodecLoop(streams, audioCodec, videoCodec) ==
    IF streams = <<>> THEN <<audioCodec, videoCodec>>
    ELSE LET stream == Head(streams)
         IN  CodecLoop(Tail(streams),
                 IF stream.CodecType = "audio" THEN stream.CodecName ELSE audioCodec,
                 IF stream.CodecType = "video" THEN stream.CodecName ELSE videoCodec)

OutputFilename(path) == TrimSuffix(Base(path), Ext(path)) \o MP4

OutPath(path, outDir) ==
    IF outDir = <<>> THEN Join(Dir(path), OutputFilename(path))
    ELSE Join(outDir, OutputFilename(path))

TmpPath(path) == Join(Dir(path), <<Dot>> \o OutputFilename(path))

\* variant of Skips: the extension compared with "mp4"
SkipsExtNoDot(codecs, path) ==
    codecs[1] = "aac" /\ codecs[2] = "h264" /\ Ext(path) = <<"mp4">>

\* convert's test for "Conversion unneccessary"
Skips(codecs, path) ==
    codecs[1] = "aac" /\ codecs[2] = "h264" /\ Ext(path) = MP4

(***************************************************************************)
(* os.Rename, os.Remove and Copy on the filesystem: the files after the    *)
(* call and its error ("" is nil).  The directory x is a mount point of    *)
(* another device: a rename across devices fails (EXDEV).                  *)
(***************************************************************************)
Device(dir) == IF Len(dir) > 0 /\ dir[1] = <<"x">> THEN "dev2" ELSE "dev1"

Without(F, path) == [p \in (DOMAIN F) \ {path} |-> F[p]]

With(F, path, content) ==
    [p \in (DOMAIN F) \cup {path} |-> IF p = path THEN content ELSE F[p]]

OsRename(F, old, new) ==
    IF old \notin DOMAIN F THEN [fs |-> F, err |-> "ENOENT"]
    ELSE IF Device(Dir(old)) # Device(Dir(new)) THEN [fs |-> F, err |-> "EXDEV"]
    ELSE IF old = new THEN [fs |-> F, err |-> ""]
    ELSE [fs |-> With(Without(F, old), new, F[old]), err |-> ""]

OsRemove(F, path) ==
    IF path \notin DOMAIN F THEN [fs |-> F, err |-> "ENOENT"]
    ELSE [fs |-> Without(F, path), err |-> ""]

\* variant of Copy: without the test src == dst; os.Create(dst) truncates the
\* file that is being read and leaves it empty
CopyOntoItself(F, src, dst) ==
    IF src \notin DOMAIN F THEN [fs |-> F, err |-> "ENOENT", op |-> "copy"]
    ELSE [fs |-> With(F, dst, IF src = dst THEN Junk ELSE F[src]),
          err |-> "", op |-> "copy"]

\* .op is "copy" when Copy went on to os.Open, "" when it returned at once
Copy(F, src, dst) ==
    IF src = dst THEN [fs |-> F, err |-> "", op |-> ""]
    ELSE IF src \notin DOMAIN F THEN [fs |-> F, err |-> "ENOENT", op |-> "copy"]
    ELSE [fs |-> With(F, dst, F[src]), err |-> "", op |-> "copy"]


(***************************************************************************)
(* Names and directories of the model's filesystems.                       *)
(***************************************************************************)
Nm(stem) == <<stem>>
DirD == <<Nm("d")>>             \* a source directory
DirSub == <<Nm("d"), Nm("sub")>>
DirO == <<Nm("o")>>             \* an output directory on the sources' device
DirX == <<Nm("x")>>             \* an output directory on another device
DirW == <<Nm("w")>>             \* the directory watch mode watches

\* an fsnotify.Event
Event(name, op) == [Name |-> name, Op |-> op]

RECURSIVE CreateEvents(_)
CreateEvents(paths) ==
    IF paths = <<>> THEN <<>>
    ELSE <<Event(Head(paths), "create")>> \o CreateEvents(Tail(paths))

\* the create-events the filesystem change F -> F2 puts on watcher.Events
\* (only the watched directory itself is subscribed)
FsEvents(F, F2, watching) ==
    IF ~watching THEN <<>>
    ELSE LET new == {p \in (DOMAIN F2) \ (DOMAIN F) : Dir(p) = DirW}
         IN  CreateEvents(JoinAll(DirW, SortNames({Base(p) : p \in new})))

Watching == pcMain \in {"watching", "draining"}

(***************************************************************************)
(* The worker pool: startWorkers, convertWorker, and the handoff of one    *)
(* value on the unbuffered fileChan.                                       *)
(***************************************************************************)
W == 1..MaxWorkers

NewJob(path, n) ==
    [path |-> path, recv |-> n, calls |-> 0, rets |-> 0, info |-> <<>>,
     branch |-> "", out |-> <<>>, err |-> "", ops |-> <<>>]

\* variant of Receivers: a broadcast to every worker waiting to receive
ReceiversAllReady(w) == {x \in W : pc[x] = "recv"}

\* variant of Receivers: the value is stored in a buffer, no worker takes it
ReceiversNone(w) == {}

\* the goroutines a value sent on fileChan is delivered to when w receives
Receivers(w) == {w}

\* fileChan <- path meets worker w's receive in range fileChan
Deliver(w, path) ==
    LET R == Receivers(w)
    IN  /\ proc = "running"
        /\ pc[w] = "recv"
        /\ ~closed
        /\ jobs' = Append(jobs, NewJob(path, Cardinality(R)))
        /\ cur' = [x \in W |-> IF x \in R THEN Len(jobs) + 1 ELSE cur[x]]
        /\ pc' = [x \in W |-> IF x \in R THEN "convert" ELSE pc[x]]

\* startWorkers
StartWorkers ==
    /\ wg' = IF numWorkers > 0 THEN numWorkers ELSE 0
    /\ pc' = [w \in W |-> IF w <= numWorkers THEN "recv" ELSE "unborn"]

\* range fileChan ends: the channel is closed; the deferred wg.Done()
WorkerExit(w) ==
    /\ proc = "running"
    /\ pc[w] = "recv"
    /\ closed
    /\ pc' = [pc EXCEPT ![w] = "exited"]
    /\ wg' = wg - 1
    /\ UNCHANGED <<flagVars, fsVars, proc, pcMain, filesToConvert, closed, cur,
                   codec, err, jobs, gst, watchVars>>

(***************************************************************************)
(* convert, in the steps other goroutines can interleave with: the probe   *)
(* and the decision, the skip path's rename or copy, ffmpeg's run, the     *)
(* rename of the temporary file, the removal of the original.              *)
(***************************************************************************)
Op(J, j, op, res) == [J EXCEPT ![j].ops = Append(@, <<op, res>>)]

\* convert returns (p, e) to convertWorker, which logs a non-nil err and loops
Returned(J, j, p, e) == [J EXCEPT ![j].rets = @ + 1, ![j].out = p, ![j].err = e]

BackToRecv(w) ==
    /\ pc' = [pc EXCEPT ![w] = "recv"]
    /\ cur' = [cur EXCEPT ![w] = 0]
    /\ codec' = [codec EXCEPT ![w] = <<"", "">>]
    /\ err' = [err EXCEPT ![w] = ""]

\* convert up to its branch: getInfo, the loop over the streams, the test
ConvertProbe(w) ==
    /\ proc = "running"
    /\ pc[w] = "convert"
    /\ LET j == cur[w]
           path == jobs[j].path
           info == getInfo(fs, path)
           codecs == CodecLoop(info.Streams, "", "")
           called == [jobs EXCEPT ![j].calls = @ + 1]
       IN  IF ~info.ok
           THEN /\ proc' = "fatal"
                /\ jobs' = Op(called, j, "ffprobe", "fatal")
                /\ UNCHANGED <<pc, codec>>
           ELSE /\ proc' = proc
                /\ codec' = [codec EXCEPT ![w] = codecs]
                /\ pc' = [pc EXCEPT ![w] = IF Skips(codecs, path) THEN "skip"
                                            ELSE "ffmpeg"]
                /\ jobs' = [Op(called, j, "ffprobe", "") EXCEPT
                               ![j].info = info.Streams,
                               ![j].branch = IF Skips(codecs, path) THEN "skip"
                                             ELSE "transcode"]
    /\ UNCHANGED <<flagVars, fsVars, pcMain, filesToConvert, closed, wg, cur, err,
                   gst, watchVars>>

\* the skip path: os.Rename(path, outpath) or Copy(path, outpath), and return
ConvertSkip(w) ==
    /\ proc = "running"
    /\ pc[w] = "skip"
    /\ LET j == cur[w]
           path == jobs[j].path
           outpath == OutPath(path, outputDir)
           r == IF deleteOriginal THEN OsRename(fs, path, outpath)
                ELSE Copy(fs, path, outpath)
           op == IF deleteOriginal THEN "rename" ELSE r.op
       IN  /\ fs' = r.fs
           /\ events' = events \o FsEvents(fs, r.fs, Watching)
           /\ jobs' = Returned(IF op = "" THEN jobs ELSE Op(jobs, j, op, r.err),
                               j, IF r.err # "" THEN path ELSE outpath, r.err)
    /\ BackToRecv(w)
    /\ UNCHANGED <<flagVars, dirs, proc, pcMain, filesToConvert, closed, wg, gst,
                   evpc, evFiles, evLog, arrivals>>

\* what cmd.Run() of ffmpeg can do: succeed and write tmp, or fail, leaving
\* nothing or a partial tmp; it cannot succeed without its input
FfmpegOutcomes(F, path) ==
    (IF path \in DOMAIN F THEN {"ok"} ELSE {}) \cup {"fail", "fail_partial"}

\* variant of AfterFfmpeg: the rename whatever cmd.Run returned
AfterFfmpegAlwaysRename(res) == "rename"

\* if err == nil { os.Rename ... } else { log.Printf ... }; return
AfterFfmpeg(res) == IF res = "ok" THEN "rename" ELSE "return"

\* cmd.Run() of ffmpeg
ConvertEncode(w) ==
    /\ proc = "running"
    /\ pc[w] = "ffmpeg"
    /\ LET j == cur[w]
           path == jobs[j].path
           tmp == TmpPath(path)
       IN  \E res \in FfmpegOutcomes(fs, path) :
              LET F2 == IF res = "ok" THEN With(fs, tmp, Encoded)
                        ELSE IF res = "fail_partial" THEN With(fs, tmp, Partial)
                        ELSE fs
              IN  /\ fs' = F2
                  /\ events' = events \o FsEvents(fs, F2, Watching)
                  /\ IF AfterFfmpeg(res) = "rename"
                     THEN /\ pc' = [pc EXCEPT ![w] = "rename"]
                          /\ jobs' = Op(jobs, j, "ffmpeg", res)
                          /\ UNCHANGED <<cur, codec, err>>
                     ELSE /\ jobs' = Returned(Op(jobs, j, "ffmpeg", res), j,
                                               OutPath(path, outputDir), "exit status 1")
                          /\ BackToRecv(w)
    /\ UNCHANGED <<flagVars, dirs, proc, pcMain, filesToConvert, closed, wg, gst,
                   evpc, evFiles, evLog, arrivals>>

\* variant of AfterRename: return on a failed rename
AfterRenameChecked(e) ==
    IF e # "" THEN "return" ELSE IF deleteOriginal THEN "remove" ELSE "return"

\* what follows os.Rename(tmp, outpath), whose error e convert does not read
AfterRename(e) == IF deleteOriginal THEN "remove" ELSE "return"

\* err == nil: os.Rename(tmp, outpath)
ConvertRename(w) ==
    /\ proc = "running"
    /\ pc[w] = "rename"
    /\ LET j == cur[w]
           path == jobs[j].path
           r == OsRename(fs, TmpPath(path), OutPath(path, outputDir))
       IN  /\ fs' = r.fs
           /\ events' = events \o FsEvents(fs, r.fs, Watching)
           /\ IF AfterRename(r.err) = "remove"
              THEN /\ pc' = [pc EXCEPT ![w] = "remove"]
                   /\ jobs' = Op(jobs, j, "rename", r.err)
                   /\ UNCHANGED <<cur, codec, err>>
              ELSE /\ jobs' = Returned(Op(jobs, j, "rename", r.err), j,
                                       OutPath(path, outputDir), "")
                   /\ BackToRecv(w)
    /\ UNCHANGED <<flagVars, dirs, proc, pcMain, filesToConvert, closed, wg, gst,
                   evpc, evFiles, evLog, arrivals>>

\* *deleteOriginal: os.Remove(path), and return
ConvertRemove(w) ==
    /\ proc = "running"
    /\ pc[w] = "remove"
    /\ LET j == cur[w]
           path == jobs[j].path
           r == OsRemove(fs, path)
       IN  /\ fs' = r.fs
           /\ jobs' = Returned(Op(jobs, j, "remove", r.err), j,
                               OutPath(path, outputDir), "")
    /\ BackToRecv(w)
    /\ UNCHANGED <<flagVars, dirs, proc, pcMain, filesToConvert, closed, wg, gst,
                   watchVars>>

Worker(w) ==
    \/ ConvertProbe(w)
    \/ ConvertSkip(w)
    \/ ConvertEncode(w)
    \/ ConvertRename(w)
    \/ ConvertRemove(w)
    \/ WorkerExit(w)


(***************************************************************************)
(* Batch mode: main after flag.Parse.                                      *)
(***************************************************************************)
RECURSIVE GatherAll(_, _, _, _)
\* main's loop over the inputs
GatherAll(ins, rec, F, D) ==
    IF ins = <<>> THEN [files |-> <<>>, fatal |-> FALSE]
    ELSE LET g == gatherFiles(Head(ins), rec, F, D)
         IN  IF g.fatal THEN [files |-> <<>>, fatal |-> TRUE]
             ELSE LET r == GatherAll(Tail(ins), rec, F, D)
                  IN  [files |-> g.files \o r.files, fatal |-> r.fatal]

\* main up to the loop that sends: the discovery, then startWorkers
MainGather ==
    /\ proc = "running"
    /\ pcMain = "gather"
    /\ LET g == GatherAll(inputs, recursive, fs, dirs)
       IN  IF g.fatal
           THEN /\ proc' = "fatal"
                /\ UNCHANGED <<pcMain, filesToConvert, wg, pc>>
           ELSE /\ proc' = proc
                /\ filesToConvert' = g.files
                /\ pcMain' = "send"
                /\ StartWorkers
    /\ UNCHANGED <<flagVars, fsVars, closed, cur, codec, err, jobs, gst, watchVars>>

\* fileChan <- file, received by worker w
MainSend(w) ==
    /\ pcMain = "send"
    /\ Len(jobs) < Len(filesToConvert)
    /\ Deliver(w, filesToConvert[Len(jobs) + 1])
    /\ UNCHANGED <<flagVars, fsVars, proc, pcMain, filesToConvert, closed, wg,
                   codec, err, gst, watchVars>>

\* close(fileChan)
MainClose ==
    /\ proc = "running"
    /\ pcMain = "send"
    /\ Len(jobs) = Len(filesToConvert)
    /\ closed' = TRUE
    /\ pcMain' = "wait"
    /\ UNCHANGED <<flagVars, fsVars, proc, filesToConvert, wg, pc, cur, codec, err,
                   jobs, gst, watchVars>>

\* wg.Wait() returns, and main with it
MainWait ==
    /\ proc = "running"
    /\ pcMain = "wait"
    /\ wg = 0
    /\ pcMain' = "done"
    /\ proc' = "exited"
    /\ UNCHANGED <<flagVars, fsVars, filesToConvert, poolVars, gst, watchVars>>

NextBatch ==
    \/ MainGather
    \/ \E w \in W : MainSend(w)
    \/ MainClose
    \/ MainWait
    \/ \E w \in W : Worker(w)

(***************************************************************************)
(* Initial states.                                                         *)
(***************************************************************************)
InitPool ==
    /\ closed = FALSE
    /\ wg = 0
    /\ pc = [w \in W |-> "unborn"]
    /\ cur = [w \in W |-> 0]
    /\ codec = [w \in W |-> <<"", "">>]
    /\ err = [w \in W |-> ""]
    /\ jobs = <<>>

InitNoWatch ==
    /\ events = <<>>
    /\ evpc = "unborn"
    /\ evFiles = <<>>
    /\ evLog = <<>>
    /\ arrivals = 0

InitNoGather == gst = [toExplore |-> <<>>, files |-> <<>>, depth1 |-> TRUE, fatal |-> FALSE]

AAvi == Join(DirD, <<"a">> \o AVI)
AMp4 == Join(DirD, <<"a">> \o MP4)
BMkv == Join(DirSub, <<"b">> \o MKV)
CTxt == Join(DirSub, <<"c">> \o TXT)

\* the files of the batch runs: one to transcode, one already compliant,
\* one that is no media file, one in a subdirectory
BatchFiles ==
    (AAvi :> Media(<<StreamInfo("video", "mpeg4"), StreamInfo("audio", "mp3")>>))
    @@ (AMp4 :> Encoded)
    @@ (CTxt :> Junk)
    @@ (BMkv :> Media(<<StreamInfo("video", "h264"), StreamInfo("audio", "aac")>>))

SeqsUpTo(S, n) == UNION {[1..k -> S] : k \in 0..n}

\* batch mode with a pool: the positional arguments, -n, -d and -r vary; -o
\* keeps its default (SpecConvert varies it)
Init ==
    /\ numWorkers \in 0..MaxWorkers
    /\ deleteOriginal \in BOOLEAN
    /\ recursive \in BOOLEAN
    /\ outputDir = <<>>
    /\ inputs \in SeqsUpTo({DirD, BMkv}, MaxInputs) \ {<<>>}
    /\ fs = BatchFiles
    /\ dirs = {DirD, DirSub, DirO, DirX}
    /\ proc = "running"
    /\ pcMain = "gather"
    /\ filesToConvert = <<>>
    /\ InitPool /\ InitNoWatch /\ InitNoGather

Spec == Init /\ [][NextBatch]_vars


(***************************************************************************)
(* One call of convert on its own: a pool of one worker and one input      *)
(* file, over every kind of path, probe output and flag setting.           *)
(***************************************************************************)
StreamKinds ==
    {StreamInfo("audio", "aac"), StreamInfo("audio", "mp3"),
     StreamInfo("video", "h264"), StreamInfo("video", "mpeg4"),
     StreamInfo("subtitle", "subrip")}

Contents == {Media(streams) : streams \in SeqsUpTo(StreamKinds, MaxStreams)} \cup {Junk}

ConvertPaths ==
    {AAvi, AMp4,
     Join(DirD, <<Dot, "a">> \o MP4),    \* d/.a.mp4
     Join(DirD, <<"a">>),                \* d/a
     <<(<<"b">> \o MKV)>>}               \* b.mkv, in the working directory

InitConvert ==
    /\ numWorkers = 1
    /\ deleteOriginal \in BOOLEAN
    /\ recursive = FALSE
    /\ outputDir \in {<<>>, DirO, DirX}
    /\ \E path \in ConvertPaths, content \in Contents :
          /\ inputs = <<path>>
          /\ fs = (path :> content)
    /\ dirs = {DirD, DirO, DirX}
    /\ proc = "running"
    /\ pcMain = "gather"
    /\ filesToConvert = <<>>
    /\ InitPool /\ InitNoWatch /\ InitNoGather

SpecConvert == InitConvert /\ [][NextBatch]_vars


(***************************************************************************)
(* gatherFiles on its own, one iteration of its loop at a time, over a     *)
(* family of trees: a chain of directories d, d/sub, d/sub/sub, ..., each  *)
(* with any of two files, and a second subdirectory d/b of the root.       *)
(***************************************************************************)
ChainDir(k) == [i \in 1..(k + 1) |-> IF i = 1 THEN Nm("d") ELSE Nm("sub")]
SideDir == Join(DirD, Nm("b"))

TreeFileNames == {<<"a">> \o AVI, <<"c">> \o TXT}

TreeDirs(depth, side) ==
    {ChainDir(k) : k \in 0..depth} \cup (IF side THEN {SideDir} ELSE {})

TreeFiles(D) == {Join(dir, name) : dir \in D, name \in TreeFileNames}

GatherStep ==
    /\ pcMain = "gatherFiles"
    /\ ~GatherDone(gst)
    /\ gst' = GatherIter(gst, recursive, fs, dirs)
    /\ UNCHANGED <<flagVars, fsVars, proc, pcMain, filesToConvert, poolVars, watchVars>>

InitGather ==
    /\ numWorkers = 0
    /\ deleteOriginal = FALSE
    /\ recursive \in BOOLEAN
    /\ outputDir = <<>>
    /\ \E depth \in 0..MaxDepth, side \in BOOLEAN :
          /\ dirs = TreeDirs(depth, side)
          /\ \E files \in SUBSET TreeFiles(dirs) : fs = [p \in files |-> Junk]
    /\ inputs \in {<<DirD>>, <<ChainDir(1)>>, <<AAvi>>}
    /\ gst = GatherStart(inputs[1])
    /\ proc = "running"
    /\ pcMain = "gatherFiles"
    /\ filesToConvert = <<>>
    /\ InitPool /\ InitNoWatch

SpecGather == InitGather /\ [][GatherStep]_vars

(***************************************************************************)
(* Watch mode: watch, its event goroutine, and the outside world creating  *)
(* things in the watched directory w.                                      *)
(***************************************************************************)
RECURSIVE FilterVid(_)
\* for _, file := range files { if isVid(file) { fileChan <- file } }
FilterVid(files) ==
    IF files = <<>> THEN <<>>
    ELSE (IF isVid(Head(files)) THEN <<Head(files)>> ELSE <<>>) \o FilterVid(Tail(files))

\* watch up to <-c: NewWatcher, startWorkers, go func, watcher.Add(path)
WatchStart ==
    /\ proc = "running"
    /\ pcMain = "watch"
    /\ IF Stat(fs, dirs, inputs[1]) = "missing"
       THEN /\ proc' = "fatal"
            /\ UNCHANGED <<pcMain, evpc, wg, pc>>
       ELSE /\ proc' = proc
            /\ pcMain' = "watching"
            /\ evpc' = "select"
            /\ StartWorkers
    /\ UNCHANGED <<flagVars, fsVars, filesToConvert, closed, cur, codec, err, jobs,
                   gst, events, evFiles, evLog, arrivals>>

\* <-c: the signal arrives; close(fileChan)
WatchSignal ==
    /\ proc = "running"
    /\ pcMain = "watching"
    /\ closed' = TRUE
    /\ pcMain' = "draining"
    /\ UNCHANGED <<flagVars, fsVars, proc, filesToConvert, wg, pc, cur, codec, err,
                   jobs, gst, watchVars>>

\* wg.Wait() returns, and watch and main with it
WatchWait ==
    /\ proc = "running"
    /\ pcMain = "draining"
    /\ wg = 0
    /\ pcMain' = "done"
    /\ proc' = "exited"
    /\ UNCHANGED <<flagVars, fsVars, filesToConvert, poolVars, gst, watchVars>>

\* what the goroutine is to send for a create-event, after os.Stat:
\* .crash is "" or how the process ends
Expand(F, D, name) ==
    LET kind == Stat(F, D, name)
        g == gatherFiles(name, TRUE, F, D)
    IN  IF kind = "missing"
        THEN [kind |-> kind, crash |-> "panic: nil pointer dereference", files |-> <<>>]
        ELSE IF kind = "dir"
        THEN IF g.fatal THEN [kind |-> kind, crash |-> "fatal", files |-> <<>>]
             ELSE [kind |-> kind, crash |-> "", files |-> FilterVid(g.files)]
        ELSE [kind |-> kind, crash |-> "",
              files |-> IF isVid(name) THEN <<name>> ELSE <<>>]

\* case event := <-watcher.Events, up to the first send on fileChan
EvRead ==
    /\ proc = "running"
    /\ evpc = "select"
    /\ events # <<>>
    /\ events' = Tail(events)
    /\ LET event == Head(events)
           x == Expand(fs, dirs, event.Name)
       IN  IF event.Op # "create"
           THEN UNCHANGED <<proc, evpc, evFiles, evLog>>
           ELSE IF x.crash # ""
           THEN /\ proc' = x.crash
                /\ UNCHANGED <<evpc, evFiles, evLog>>
           ELSE /\ proc' = proc
                /\ evFiles' = x.files
                /\ evpc' = IF x.files = <<>> THEN "select" ELSE "send"
                /\ evLog' = Append(evLog,
                       [name |-> event.Name, kind |-> x.kind, snapshot |-> DOMAIN fs,
                        sent |-> <<>>, done |-> x.files = <<>>])
    /\ UNCHANGED <<flagVars, fsVars, pcMain, filesToConvert, poolVars, gst, arrivals>>

\* fileChan <- file, received by worker w
EvSend(w) ==
    /\ evpc = "send"
    /\ Deliver(w, Head(evFiles))
    /\ evFiles' = Tail(evFiles)
    /\ evpc' = IF Tail(evFiles) = <<>> THEN "select" ELSE "send"
    /\ evLog' = [evLog EXCEPT ![Len(evLog)].sent = Append(@, Head(evFiles)),
                              ![Len(evLog)].done = (Tail(evFiles) = <<>>)]
    /\ UNCHANGED <<flagVars, fsVars, proc, pcMain, filesToConvert, closed, wg,
                   codec, err, gst, events, arrivals>>

\* fileChan <- file on the closed channel
EvSendClosed ==
    /\ proc = "running"
    /\ evpc = "send"
    /\ closed
    /\ proc' = "panic: send on closed channel"
    /\ UNCHANGED <<flagVars, fsVars, pcMain, filesToConvert, poolVars, gst, watchVars>>

\* case watchErr := <-watcher.Errors: log.Fatal
EvError ==
    /\ proc = "running"
    /\ evpc = "select"
    /\ proc' = "fatal"
    /\ UNCHANGED <<flagVars, fsVars, pcMain, filesToConvert, poolVars, gst, watchVars>>

VAvi == Join(DirW, <<"a">> \o AVI)
NTxt == Join(DirW, <<"c">> \o TXT)
WSub == Join(DirW, Nm("sub"))
WSubSub == Join(WSub, Nm("sub"))

\* what the outside world creates in w: a video file, a text file (each
\* written after it is created), and a directory moved in with two videos,
\* one of them a level down, and a hidden file
Arrivals ==
    {[name |-> VAvi, dirs |-> {},
      files |-> (VAvi :> Media(<<StreamInfo("video", "mpeg4"), StreamInfo("audio", "mp3")>>)),
      events |-> <<Event(VAvi, "create"), Event(VAvi, "write")>>],
     [name |-> NTxt, dirs |-> {},
      files |-> (NTxt :> Junk),
      events |-> <<Event(NTxt, "create"), Event(NTxt, "write")>>],
     [name |-> WSub, dirs |-> {WSub, WSubSub},
      files |-> (Join(WSub, <<"a">> \o MP4) :> Encoded)
                @@ (Join(WSub, <<Dot, "a">> \o AVI) :> Partial)
                @@ (Join(WSubSub, <<"b">> \o MKV) :> Encoded),
      events |-> <<Event(WSub, "create")>>]}

EnvCreate ==
    /\ proc = "running"
    /\ Watching
    /\ arrivals < MaxArrivals
    /\ \E a \in Arrivals :
          /\ Stat(fs, dirs, a.name) = "missing"
          /\ fs' = a.files @@ fs
          /\ dirs' = dirs \cup a.dirs
          /\ events' = events \o a.events
    /\ arrivals' = arrivals + 1
    /\ UNCHANGED <<flagVars, proc, pcMain, filesToConvert, poolVars, gst, evpc,
                   evFiles, evLog>>

NextWatch ==
    \/ WatchStart
    \/ WatchSignal
    \/ WatchWait
    \/ EvRead
    \/ \E w \in W : EvSend(w)
    \/ EvSendClosed
    \/ EvError
    \/ EnvCreate
    \/ \E w \in W : Worker(w)

InitWatch ==
    /\ numWorkers \in 1..MaxWorkers
    /\ deleteOriginal \in BOOLEAN
    /\ recursive = FALSE
    /\ outputDir = DirO
    /\ inputs = <<DirW>>
    /\ fs = <<>>
    /\ dirs = {DirW, DirO}
    /\ proc = "running"
    /\ pcMain = "watch"
    /\ filesToConvert = <<>>
    /\ InitPool /\ InitNoWatch /\ InitNoGather

SpecWatch == InitWatch /\ [][NextWatch]_vars

(***************************************************************************)
(* What the claims speak of.                                               *)
(***************************************************************************)
JobIds == 1..Len(jobs)

HasOp(j, op) == \E i \in 1..Len(jobs[j].ops) : jobs[j].ops[i][1] = op

HasOpRes(j, op, res) == \E i \in 1..Len(jobs[j].ops) : jobs[j].ops[i] = <<op, res>>

\* the codec name of the first / last stream of a type, "" if there is none
FirstOfType(streams, type) ==
    LET I == {i \in 1..Len(streams) : streams[i].CodecType = type}
    IN  IF I = {} THEN ""
        ELSE streams[CHOOSE i \in I : \A k \in I : i <= k].CodecName

LastOfType(streams, type) ==
    LET I == {i \in 1..Len(streams) : streams[i].CodecType = type}
    IN  IF I = {} THEN ""
        ELSE streams[CHOOSE i \in I : \A k \in I : k <= i].CodecName

Probed(j) == HasOpRes(j, "ffprobe", "")

Returned1(j) == jobs[j].rets = 1

EncodeFailed(j) == HasOpRes(j, "ffmpeg", "fail") \/ HasOpRes(j, "ffmpeg", "fail_partial")

(***************************************************************************)
(* C1.  Batch mode, W >= 1 workers: every value main sends on fileChan is  *)
(* received by exactly one worker and convert is called for it at most     *)
(* once, no two workers hold the same job at the same time, the jobs sent  *)
(* are the discovered files in order, and when main has returned every     *)
(* discovered file was sent, converted once and its convert has returned.  *)
(***************************************************************************)
C1_EachJobExactlyOnce ==
    /\ Len(jobs) <= Len(filesToConvert)
    /\ \A j \in JobIds :
          /\ jobs[j].path = filesToConvert[j]
          /\ jobs[j].recv = 1
          /\ jobs[j].calls <= 1
          /\ jobs[j].rets <= jobs[j].calls
          /\ Cardinality({w \in W : cur[w] = j}) <= 1
          /\ (jobs[j].rets = 1 => \A w \in W : cur[w] # j)
    /\ proc = "exited" =>
          /\ Len(jobs) = Len(filesToConvert)
          /\ \A j \in JobIds : jobs[j].calls = 1 /\ jobs[j].rets = 1

C1_Witness ==
    /\ proc = "exited"
    /\ numWorkers = 2
    /\ Len(jobs) >= 3
    /\ \A j \in JobIds : jobs[j].calls = 1 /\ jobs[j].rets = 1

(***************************************************************************)
(* C2.  Transcode path, any flags and extension: when ffmpeg succeeded and *)
(* convert has returned without error, the temporary file does not exist   *)
(* and the output file exists at the output path.                          *)
(***************************************************************************)
C2_TranscodeLeavesOnlyOutput ==
    \A j \in JobIds :
        (jobs[j].branch = "transcode" /\ HasOpRes(j, "ffmpeg", "ok")
            /\ Returned1(j) /\ jobs[j].err = "")
        => /\ TmpPath(jobs[j].path) \notin DOMAIN fs
           /\ OutPath(jobs[j].path, outputDir) \in DOMAIN fs

(***************************************************************************)
(* C3.  Transcode path with delete-original: whenever convert has removed  *)
(* the source, the rename of the temporary file to the output path had     *)
(* succeeded before and the output file exists at the output path.         *)
(***************************************************************************)
C3_SourceRemovedOnlyAfterRename ==
    \A j \in JobIds :
        (jobs[j].branch = "transcode" /\ HasOpRes(j, "remove", ""))
        => /\ HasOpRes(j, "rename", "")
           /\ OutPath(jobs[j].path, outputDir) \in DOMAIN fs

(***************************************************************************)
(* C4.  delete-original set and ffmpeg failed: when convert has returned,  *)
(* the source still exists with its content, convert has renamed nothing   *)
(* and removed nothing, and a temporary file ffmpeg left is still there.   *)
(***************************************************************************)
C4_EncodeFailureKeepsSource ==
    \A j \in JobIds :
        (deleteOriginal /\ EncodeFailed(j) /\ Returned1(j))
        => /\ jobs[j].path \in DOMAIN fs
           /\ fs[jobs[j].path] = Media(jobs[j].info)
           /\ ~HasOp(j, "rename")
           /\ ~HasOp(j, "remove")
           /\ jobs[j].err # ""
           /\ OutPath(jobs[j].path, outputDir) \in DOMAIN fs
                  => OutPath(jobs[j].path, outputDir) = jobs[j].path
           /\ (HasOpRes(j, "ffmpeg", "fail_partial")
                  => /\ TmpPath(jobs[j].path) \in DOMAIN fs
                     /\ fs[TmpPath(jobs[j].path)] = Partial)

C4_Witness ==
    \E j \in JobIds :
        /\ deleteOriginal /\ Returned1(j)
        /\ HasOpRes(j, "ffmpeg", "fail_partial")
        /\ TmpPath(jobs[j].path) \in DOMAIN fs

(***************************************************************************)
(* C5.  A per-job error (a failed probe, a failed ffmpeg, a failed copy or *)
(* rename of the skip path) stays in the worker that handles the job: the  *)
(* process keeps running, the job's convert returns and the worker goes    *)
(* back to receive.                                                        *)
(***************************************************************************)
JobFailed(j) ==
    \/ HasOpRes(j, "ffprobe", "fatal")
    \/ EncodeFailed(j)
    \/ (jobs[j].branch = "skip" /\ jobs[j].err # "")

C5_PerJobErrorsContained ==
    \A j \in JobIds :
        JobFailed(j) => /\ proc \in {"running", "exited"}
                        /\ Returned1(j)
                        /\ \A w \in W : cur[w] # j

(***************************************************************************)
(* C7.  A file whose last audio stream is aac, whose last video stream is  *)
(* h264 and whose extension is .mp4: convert never runs ffmpeg for it, and *)
(* when convert has returned the source still exists with its content      *)
(* unless delete-original is set.                                          *)
(***************************************************************************)
Compliant(j) ==
    /\ Probed(j)
    /\ LastOfType(jobs[j].info, "audio") = "aac"
    /\ LastOfType(jobs[j].info, "video") = "h264"
    /\ HasSuffix(Base(jobs[j].path), MP4)

C7_CompliantNeverEncoded ==
    \A j \in JobIds :
        Compliant(j)
        => /\ ~HasOp(j, "ffmpeg")
           /\ \A w \in W : cur[w] = j => pc[w] \notin {"ffmpeg", "rename", "remove"}
           /\ (Returned1(j) /\ ~deleteOriginal)
                  => /\ jobs[j].path \in DOMAIN fs
                     /\ fs[jobs[j].path] = Media(jobs[j].info)

C7_Witness ==
    \E j \in JobIds :
        /\ Compliant(j) /\ Returned1(j) /\ ~deleteOriginal
        /\ HasOpRes(j, "copy", "")
        /\ OutPath(jobs[j].path, outputDir) # jobs[j].path
        /\ OutPath(jobs[j].path, outputDir) \in DOMAIN fs

(***************************************************************************)
(* C10.  As claimed: the first audio stream's and the first video stream's *)
(* codec names decide between skip and transcode.                          *)
(***************************************************************************)
C10_FirstStreamOfTypeDecides ==
    \A j \in JobIds :
        Probed(j) =>
            (jobs[j].branch = "skip" <=>
                /\ FirstOfType(jobs[j].info, "audio") = "aac"
                /\ FirstOfType(jobs[j].info, "video") = "h264"
                /\ HasSuffix(Base(jobs[j].path), MP4))

(***************************************************************************)
(* C10, amended.  The last audio stream's and the last video stream's      *)
(* codec names decide between skip and transcode: earlier streams of the   *)
(* same type do not change the decision.                                   *)
(***************************************************************************)
C10_LastStreamOfTypeDecides ==
    /\ \A j \in JobIds :
          Probed(j) =>
              (jobs[j].branch = "skip" <=>
                  /\ LastOfType(jobs[j].info, "audio") = "aac"
                  /\ LastOfType(jobs[j].info, "video") = "h264"
                  /\ HasSuffix(Base(jobs[j].path), MP4))
    /\ \A w \in W :
          pc[w] \in {"skip", "ffmpeg", "rename", "remove"} =>
              codec[w] = <<LastOfType(jobs[cur[w]].info, "audio"),
                           LastOfType(jobs[cur[w]].info, "video")>>

C10_Witness ==
    \E j \in JobIds :
        /\ Probed(j)
        /\ jobs[j].branch = "skip"
        /\ FirstOfType(jobs[j].info, "audio") = "mp3"
        /\ LastOfType(jobs[j].info, "audio") = "aac"


(***************************************************************************)
(* More of what the claims speak of.                                       *)
(***************************************************************************)
Range(seq) == {seq[i] : i \in 1..Len(seq)}

\* p is strictly below the directory root
Under(root, p) == Len(p) > Len(root) /\ SubSeq(p, 1, Len(root)) = root

SubdirsOf(root) == {d \in dirs : Len(d) = Len(root) + 1 /\ Dir(d) = root}

\* gatherFiles(inputs[1], recursive) has returned
Gathered == pcMain = "gatherFiles" /\ GatherDone(gst) /\ ~gst.fatal

\* a name that does not start with "." and ends in .mp4, .avi or .mkv
VideoName(name) ==
    /\ name[1] # Dot
    /\ \E e \in {"mp4", "avi", "mkv"} :
          Len(name) >= 2 /\ name[Len(name) - 1] = Dot /\ name[Len(name)] = e

(***************************************************************************)
(* C6.  Watch mode, after the signal: the event goroutine sends nothing on *)
(* the closed queue (such a send panics and ends the process with the jobs *)
(* in flight), and when watch has returned every worker has returned and   *)
(* every job received has run to completion.                               *)
(***************************************************************************)
C6_GracefulShutdown ==
    /\ closed => proc # "panic: send on closed channel"
    /\ proc = "exited" =>
          /\ \A w \in W : w <= numWorkers => pc[w] = "exited"
          /\ \A j \in JobIds : jobs[j].calls = 1 /\ Returned1(j)

(***************************************************************************)
(* C8.  As claimed: gatherFiles(root, false) on a directory with one       *)
(* subdirectory yields the subdirectory's path and nothing from inside it; *)
(* gatherFiles(root, true) yields the files of the whole tree and no       *)
(* directory.                                                              *)
(***************************************************************************)
C8_NonRecursiveYieldsSubdir ==
    (Gathered /\ inputs[1] \in dirs) =>
        /\ (~recursive /\ Cardinality(SubdirsOf(inputs[1])) = 1) =>
              \A d \in SubdirsOf(inputs[1]) :
                  /\ d \in Range(gst.files)
                  /\ \A p \in Range(gst.files) : ~Under(d, p)
        /\ recursive =>
              /\ Range(gst.files) = {p \in DOMAIN fs : Under(inputs[1], p)}
              /\ Range(gst.files) \cap dirs = {}

(***************************************************************************)
(* C8, amended.  gatherFiles(root, false) on a directory with one          *)
(* subdirectory yields neither the subdirectory's path nor anything from   *)
(* inside it; gatherFiles(root, true) yields the files of the whole tree   *)
(* and no directory.                                                       *)
(***************************************************************************)
C8_NonRecursiveSkipsSubdir ==
    (Gathered /\ inputs[1] \in dirs) =>
        /\ (~recursive /\ Cardinality(SubdirsOf(inputs[1])) = 1) =>
              \A d \in SubdirsOf(inputs[1]) :
                  /\ d \notin Range(gst.files)
                  /\ \A p \in Range(gst.files) : ~Under(d, p)
        /\ recursive =>
              /\ Range(gst.files) = {p \in DOMAIN fs : Under(inputs[1], p)}
              /\ Range(gst.files) \cap dirs = {}

C8_Witness ==
    /\ Gathered
    /\ ~recursive
    /\ inputs[1] = DirD
    /\ SubdirsOf(DirD) = {ChainDir(1)}
    /\ \E p \in DOMAIN fs : Under(ChainDir(1), p)
    /\ gst.files # <<>>

(***************************************************************************)
(* C9.  Watch mode: for every create-event the goroutine has read, the     *)
(* jobs enqueued for it are distinct and are among the files below the     *)
(* created directory with a video name (the created file itself, if it has *)
(* a video name), as the filesystem was when the event was read; and when  *)
(* the goroutine is through with the event they are exactly those files.   *)
(***************************************************************************)
ExpectedJobs(e) ==
    IF e.kind = "dir"
    THEN {p \in e.snapshot : Under(e.name, p) /\ VideoName(Base(p))}
    ELSE IF VideoName(Base(e.name)) THEN {e.name} ELSE {}

C9_CreateEventEnqueuesItsVideos ==
    \A k \in 1..Len(evLog) :
        LET e == evLog[k]
        IN  /\ Cardinality(Range(e.sent)) = Len(e.sent)
            /\ Range(e.sent) \subseteq ExpectedJobs(e)
            /\ e.done => Range(e.sent) = ExpectedJobs(e)
            /\ (k < Len(evLog) \/ evpc = "select") => e.done

C9_Witness ==
    \E k \in 1..Len(evLog) :
        /\ evLog[k].kind = "dir"
        /\ evLog[k].done
        /\ Len(evLog[k].sent) = 2
        /\ Cardinality({p \in evLog[k].snapshot : Under(evLog[k].name, p)}) = 3
        /\ Len(jobs) = 2

(***************************************************************************)
(* The paths one call of convert touches, and the workers inside convert.  *)
(***************************************************************************)
Busy(w) == cur[w] # 0

SrcOf(w) == jobs[cur[w]].path

\* the paths convert writes for the job of worker w: tmp and outpath
WritesOf(w) == {TmpPath(SrcOf(w)), OutPath(SrcOf(w), outputDir)}

(***************************************************************************)
(* C11.  Whenever two workers are inside convert for two distinct source   *)
(* paths, the temporary paths and output paths of the two jobs are         *)
(* pairwise different and neither job's temporary or output path is the    *)
(* other job's source path.                                                *)
(***************************************************************************)
C11_ConcurrentJobsShareNoPath ==
    \A w1 \in W, w2 \in W :
        (w1 # w2 /\ Busy(w1) /\ Busy(w2) /\ SrcOf(w1) # SrcOf(w2)) =>
            /\ WritesOf(w1) \cap WritesOf(w2) = {}
            /\ SrcOf(w2) \notin WritesOf(w1)

(***************************************************************************)
(* C12.  Watch mode: once main has closed fileChan the event goroutine is  *)
(* not at a send on it, neither blocked in one nor about to execute one,   *)
(* and no send on the closed channel has happened.                         *)
(***************************************************************************)
C12_NoSendAtOrAfterClose ==
    (Watching /\ closed) =>
        /\ evpc # "send"
        /\ evFiles = <<>>
        /\ proc # "panic: send on closed channel"

\* the jobs sent on fileChan whose convert has not returned
InFlight == {j \in JobIds : jobs[j].rets = 0}

(***************************************************************************)
(* C13.  fileChan buffers nothing: every job sent and not yet finished is  *)
(* in the hands of one worker, so at most numWorkers jobs are in flight;   *)
(* and a send completes only in a step in which a worker that stood idle   *)
(* at its receive takes the job.                                           *)
(***************************************************************************)
C13_NoBufferedJobs ==
    /\ [](/\ Cardinality(InFlight) <= numWorkers
          /\ \A j \in InFlight : Cardinality({w \in W : cur[w] = j}) = 1)
    /\ [][Len(jobs') > Len(jobs) =>
             /\ Len(jobs') = Len(jobs) + 1
             /\ \E w \in W : /\ w <= numWorkers
                             /\ pc[w] = "recv" /\ cur[w] = 0
                             /\ cur'[w] = Len(jobs')]_vars

\* main has files left to send and stands blocked: every worker is busy
C13_Witness ==
    /\ pcMain = "send"
    /\ Len(jobs) < Len(filesToConvert)
    /\ numWorkers = 2
    /\ \A w \in W : Busy(w)
    /\ Cardinality(InFlight) = numWorkers
    /\ ~ENABLED (\E w \in W : MainSend(w))

\* some step of NextBatch can be taken (MainGather is enabled by its first
\* two conjuncts: both branches of its IF can always be taken)
CanStep ==
    \/ proc = "running" /\ pcMain = "gather"
    \/ ENABLED (\E w \in W : MainSend(w))
    \/ ENABLED MainClose
    \/ ENABLED MainWait
    \/ ENABLED (\E w \in W : Worker(w))

(***************************************************************************)
(* C14.  Batch mode, for every number of discovered files and every -n:    *)
(* the run does not stop before main has returned from wg.Wait (as long as *)
(* main has not returned, some step of main or of a worker can be taken),  *)
(* and when main has returned every file was sent, fileChan is closed,     *)
(* every worker has left its loop and every convert call has returned.     *)
(***************************************************************************)
C14_BatchTerminatesAndDrains ==
    /\ proc = "exited" \/ CanStep
    /\ proc = "exited" =>
          /\ Len(jobs) = Len(filesToConvert)
          /\ closed
          /\ wg = 0
          /\ \A w \in W : w <= numWorkers => pc[w] = "exited"
          /\ \A j \in JobIds : Returned1(j)

(***************************************************************************)
(* C15.  Watch mode: while files of a create-event wait to be handed to    *)
(* workers that are all busy, the event goroutine can still take a watcher *)
(* error and, if an event is pending, receive that event.                  *)
(***************************************************************************)
C15_EventLoopNotBlockedBySend ==
    (/\ proc = "running"
     /\ evFiles # <<>>
     /\ \A w \in W : w <= numWorkers => Busy(w)) =>
        /\ ENABLED EvError
        /\ events # <<>> => ENABLED EvRead

\* job j took the skip path with outpath equal to its path, and has returned
SkippedInPlace(j) ==
    /\ jobs[j].branch = "skip"
    /\ Returned1(j)
    /\ OutPath(jobs[j].path, outputDir) = jobs[j].path

(***************************************************************************)
(* C16.  As claimed: a call of convert that takes the skip path with the   *)
(* source path equal to the target path performs neither a copy nor a      *)
(* rename, with -d and without, leaves the filesystem as it was, and       *)
(* returns the target path and no error.                                   *)
(***************************************************************************)
C16_SkipInPlaceNoCopyNoRename ==
    \A j \in JobIds :
        SkippedInPlace(j) =>
            /\ ~HasOp(j, "copy")
            /\ ~HasOp(j, "rename")
            /\ fs = (jobs[j].path :> Media(jobs[j].info))
            /\ jobs[j].out = jobs[j].path
            /\ jobs[j].err = ""

(***************************************************************************)
(* C16, amended.  A call of convert that takes the skip path with the      *)
(* source path equal to the target path performs no copy; with -d it calls *)
(* os.Rename(path, path), which succeeds, and without -d no rename; either *)
(* way the filesystem is left as it was, no other operation is performed   *)
(* and convert returns the target path and no error.                       *)
(***************************************************************************)
C16_SkipInPlaceLeavesFilesystem ==
    \A j \in JobIds :
        SkippedInPlace(j) =>
            /\ ~HasOp(j, "copy")
            /\ jobs[j].ops = IF deleteOriginal
                             THEN <<<<"ffprobe", "">>, <<"rename", "">>>>
                             ELSE <<<<"ffprobe", "">>>>
            /\ fs = (jobs[j].path :> Media(jobs[j].info))
            /\ jobs[j].out = jobs[j].path
            /\ jobs[j].err = ""

\* d/a.mp4 with aac and h264, no -o, without -d
C16_Witness ==
    \E j \in JobIds :
        /\ SkippedInPlace(j)
        /\ jobs[j].path = AMp4
        /\ outputDir = <<>>
        /\ ~deleteOriginal
        /\ AMp4 \in DOMAIN fs

\* what gatherFiles(root, rec) is to yield on the tree as it is
FilesFrom(root, rec) ==
    IF Stat(fs, dirs, root) = "file" THEN {root}
    ELSE IF rec THEN {p \in DOMAIN fs : Under(root, p)}
    ELSE {p \in DOMAIN fs : Len(p) = Len(root) + 1 /\ Dir(p) = root}

\* the entries of the tree at or below path p (1 for a path that is gone)
Size(p) == 1 + Cardinality({q \in (DOMAIN fs) \cup dirs : Under(p, q)})

RECURSIVE WorkLeft(_)
\* what the paths on the stack stand for: the entries still to be visited
WorkLeft(stack) ==
    IF stack = <<>> THEN 0 ELSE Size(Head(stack)) + WorkLeft(Tail(stack))

(***************************************************************************)
(* C17.  gatherFiles never has a directory among the paths it collects and *)
(* collects no path twice; when it has returned for a root that is a file  *)
(* it yields that file alone, for a directory with recursive=true every    *)
(* non-directory path of the tree, and with recursive=false the            *)
(* non-directory immediate children of the root and nothing from below a   *)
(* subdirectory; and its loop comes to an end on every tree: every         *)
(* iteration makes the work left on the stack smaller.                     *)
(***************************************************************************)
C17_GatherYieldsFilesOnceAndEnds ==
    /\ [](/\ Range(gst.files) \cap dirs = {}
          /\ Cardinality(Range(gst.files)) = Len(gst.files)
          /\ Range(gst.files) \subseteq FilesFrom(inputs[1], recursive)
          /\ Gathered => Range(gst.files) = FilesFrom(inputs[1], recursive))
    /\ [][WorkLeft(gst'.toExplore) < WorkLeft(gst.toExplore)]_vars

\* gatherFiles(d, true) has returned on a tree three levels deep with a
\* second subdirectory and files on every level
C17_Witness ==
    /\ Gathered
    /\ recursive
    /\ inputs[1] = DirD
    /\ dirs = TreeDirs(MaxDepth, TRUE)
    /\ Len(gst.files) >= 4
    /\ \E p \in Range(gst.files) : Dir(p) = ChainDir(MaxDepth)
    /\ \E p \in Range(gst.files) : Dir(p) = SideDir
    /\ \E p \in Range(gst.files) : Dir(p) = DirD

(***************************************************************************)
(* C18.  Watch mode: a create-event whose path is gone when the goroutine  *)
(* calls os.Stat does not end the process: the dereference of the nil      *)
(* FileInfo that os.Stat returned never happens.                           *)
(***************************************************************************)
C18_VanishedPathDoesNotCrash == proc # "panic: nil pointer dereference"

====
